---- MODULE Spec2Model ----
(***************************************************************************)
(* A model of xcursor-rs: cursor theme resolution (CursorTheme::load,      *)
(* CursorTheme::load_icon, parse_theme) and the XCursor container parser   *)
(* (parse_xcursor_stream, parse_img, rgba_to_argb).                        *)
(*                                                                         *)
(* Strings are sequences of one-character strings, an Option<T> is a       *)
(* sequence of length 0 (None) or 1 (Some), a u32 is the record of its two *)
(* 16-bit halves.                                                          *)
(***************************************************************************)
EXTENDS Integers, Sequences, FiniteSets, TLC

VARIABLES
    \* ---- parse_theme (src/src/lib.rs) ----
    pt_lines,     \* ghost: the line descriptors the content was written from
    pt_eol,       \* ghost: the line terminator used between lines
    pt_final,     \* ghost: whether the last line is terminated too
    content,      \* the text handed to parse_theme
    pt_pc,        \* "idle" | "ready" | "done"
    pt_result     \* Option<String> returned by parse_theme

VARIABLES
    \* ---- CursorTheme (src/src/lib.rs) ----
    fs,           \* the file system: what each root/name holds
    theme,        \* Option<CursorTheme>: the theme the caller holds, and calls
                  \* load_icon on
    li_icon,      \* the icon_name argument of the running load_icon call
    li_self,      \* the theme the current frame of load_icon runs on
    li_resolved,  \* ghost: the theme names load_icon has resolved so far
    li_pc,        \* "idle" | "running" | "done"
    li_result     \* Option<PathBuf> returned by load_icon

VARIABLES
    \* ---- parse_xcursor_stream (src/src/parser.rs) ----
    xc_file,      \* ghost: the descriptor the bytes were written from
    input,        \* the bytes of the stream
    xc_pos,       \* the position of the stream
    ntoc,         \* the count parse_header returned
    xc_i,         \* how many table-of-contents entries have been read
    img_indices,  \* the positions of the image entries read so far
    xc_seeks,     \* ghost: the positions the stream was sought to
    imgs,         \* the images decoded so far
    xc_pc,        \* "idle" | "header" | "toc" | "imgs" | "done"
    xc_result,    \* IoResult<Vec<Image>> of parse_xcursor_stream
    xc_option     \* Option<Vec<Image>> of parse_xcursor

VARIABLES
    \* ---- rgba_to_argb (src/src/parser.rs) ----
    initial,      \* the buffer the caller starts from
    rg_buf,       \* the buffer the caller holds now
    rg_calls,     \* how many times rgba_to_argb was applied to it
    rg_pc         \* "idle" | "ready"

pt_vars == <<pt_lines, pt_eol, pt_final, content, pt_pc, pt_result>>

xc_vars == <<xc_file, input, xc_pos, ntoc, xc_i, img_indices, xc_seeks, imgs,
             xc_pc, xc_result, xc_option>>

th_vars == <<fs, theme, li_icon, li_self, li_resolved, li_pc, li_result>>

rg_vars == <<initial, rg_buf, rg_calls, rg_pc>>

vars == <<pt_vars, th_vars, xc_vars, rg_vars>>

\* ------------------------------------------------------------------------
\* Option<T>
None == <<>>
Some(v) == <<v>>
IsSome(o) == o # <<>>
Unwrap(o) == o[1]

\* ------------------------------------------------------------------------
\* Bounds of the model

\* the largest number of lines of an index.theme handed to parse_theme
MaxLines == 2

\* the largest number of entries of a search path list
MaxPaths == 2

\* the largest number of table-of-contents entries of a container
MaxToc == 2

\* the largest length of a buffer of arbitrary bytes handed to rgba_to_argb
MaxLen == 8

\* the largest number of times rgba_to_argb is applied to a buffer in a row
MaxCalls == 4

\* ------------------------------------------------------------------------
\* Characters
LF == "\n"
CR == "\r"
TAB == "\t"
SP == " "

\* ------------------------------------------------------------------------
\* parse_theme and its helpers

PATTERN == <<"I", "n", "h", "e", "r", "i", "t", "s">>

\* char::is_whitespace, on the characters the model uses
is_whitespace(ch) == ch \in {SP, TAB, LF, CR}

is_xcursor_space_or_separator(ch) == is_whitespace(ch) \/ ch = ";" \/ ch = ","

\* str::starts_with
starts_with(s, p) == Len(s) >= Len(p) /\ SubSeq(s, 1, Len(p)) = p

\* str::trim_start
RECURSIVE trim_start(_)
trim_start(s) ==
    IF s # <<>> /\ is_whitespace(Head(s)) THEN trim_start(Tail(s)) ELSE s

\* Iterator::skip_while(is_xcursor_space_or_separator)
RECURSIVE skip_while_separator(_)
skip_while_separator(s) ==
    IF s # <<>> /\ is_xcursor_space_or_separator(Head(s))
    THEN skip_while_separator(Tail(s))
    ELSE s

\* Iterator::take_while(|ch| !is_xcursor_space_or_separator(ch)).collect()
RECURSIVE take_while_not_separator(_)
take_while_not_separator(s) ==
    IF s # <<>> /\ ~is_xcursor_space_or_separator(Head(s))
    THEN <<Head(s)>> \o take_while_not_separator(Tail(s))
    ELSE <<>>

\* the index of the first LF of s, 0 when there is none
FirstLF(s) ==
    IF \E i \in 1..Len(s) : s[i] = LF
    THEN CHOOSE i \in 1..Len(s) : s[i] = LF /\ \A j \in 1..(i - 1) : s[j] # LF
    ELSE 0

\* str::split_inclusive('\n'): each piece keeps its terminator, and no empty
\* piece follows a final terminator
RECURSIVE split_inclusive(_)
split_inclusive(s) ==
    IF s = <<>> THEN <<>>
    ELSE LET k == FirstLF(s)
         IN IF k = 0 THEN <<s>>
            ELSE <<SubSeq(s, 1, k)>> \o split_inclusive(SubSeq(s, k + 1, Len(s)))

\* what str::lines does to one piece: strip a final "\n", then a "\r" before it
strip_line_ending(piece) ==
    IF piece # <<>> /\ piece[Len(piece)] = LF
    THEN LET l == SubSeq(piece, 1, Len(piece) - 1)
         IN IF l # <<>> /\ l[Len(l)] = CR THEN SubSeq(l, 1, Len(l) - 1) ELSE l
    ELSE piece

\* str::lines
lines(text) ==
    LET pieces == split_inclusive(text)
    IN [i \in 1..Len(pieces) |-> strip_line_ending(pieces[i])]

\* parse_line with the line trimmed before the test for the key, and any
\* separator skipped before the "="
parse_line_lenient(line) ==
    LET l == trim_start(line)
    IN IF ~starts_with(l, PATTERN) THEN None
       ELSE LET chars == skip_while_separator(
                             SubSeq(l, Len(PATTERN) + 1, Len(l)))
            IN IF chars = <<>> \/ Head(chars) # "=" THEN None
               ELSE LET result == take_while_not_separator(
                                      skip_while_separator(Tail(chars)))
                    IN IF result # <<>> THEN Some(result) ELSE None

\* the body of parse_theme's loop on one line: Some(value) when the loop
\* returns on this line, None when it continues with the next one
parse_line(line) ==
    IF ~starts_with(line, PATTERN) THEN None
    ELSE LET chars == trim_start(SubSeq(line, Len(PATTERN) + 1, Len(line)))
         IN IF chars = <<>> \/ Head(chars) # "=" THEN None
            ELSE LET result == take_while_not_separator(
                                   skip_while_separator(Tail(chars)))
                 IN IF result # <<>> THEN Some(result) ELSE None

\* parse_lines without the early return: a later line overrides an earlier one
RECURSIVE parse_lines_last(_)
parse_lines_last(ls) ==
    IF ls = <<>> THEN None
    ELSE LET rest == parse_lines_last(Tail(ls))
         IN IF IsSome(rest) THEN rest ELSE parse_line(Head(ls))

\* the loop of parse_theme over the lines still to scan
RECURSIVE parse_lines(_)
parse_lines(ls) ==
    IF ls = <<>> THEN None
    ELSE IF IsSome(parse_line(Head(ls))) THEN parse_line(Head(ls))
    ELSE parse_lines(Tail(ls))

parse_theme(text) == parse_lines(lines(text))

\* ------------------------------------------------------------------------
\* The texts handed to parse_theme: lines written from descriptors.
\* A line is pre \o key \o mid \o eq \o seps \o val \o tail.

LineOf(pre, key, mid, eq, seps, val, tail) ==
    [pre |-> pre, key |-> key, mid |-> mid, eq |-> eq,
     seps |-> seps, val |-> val, tail |-> tail]

\* lines of the form Inherits <whitespace> = <separators> <value> <tail>
GoodLines ==
    {LineOf(<<>>, PATTERN, mid, <<"=">>, seps, val, tail) :
        mid \in {<<>>, <<SP, TAB>>},
        seps \in {<<>>, <<SP, ",", ";">>},
        val \in {<<>>, <<"A">>, <<"B", "c">>},
        tail \in {<<>>, <<";", "T">>}}

\* lines that differ from a good line in one place
DefectLines ==
    {LineOf(<<SP>>, PATTERN, mid, <<"=">>, <<>>, <<"A">>, <<>>) :
        mid \in {<<>>, <<SP>>}}
    \cup {LineOf(<<>>, key, <<>>, <<"=">>, <<>>, <<"A">>, <<>>) :
        key \in {<<"I", "n", "h", "e", "r", "i", "t">>,
                 <<"i", "n", "h", "e", "r", "i", "t", "s">>}}
    \cup {LineOf(<<>>, PATTERN, mid, <<"=">>, <<";">>, <<"A">>, <<>>) :
        mid \in {<<";">>, <<"X">>}}
    \cup {LineOf(<<>>, PATTERN, mid, <<>>, <<>>, <<"A">>, <<>>) :
        mid \in {<<>>, <<SP>>}}
    \cup {LineOf(<<>>, <<>>, <<>>, <<>>, <<>>, val, <<>>) :
        val \in {<<>>, <<"[", "T", "]">>}}

LineSet == GoodLines \cup DefectLines

Render(l) == l.pre \o l.key \o l.mid \o l.eq \o l.seps \o l.val \o l.tail

\* the text of the lines ls, joined by eol, the last line terminated when final
RECURSIVE Join(_, _, _)
Join(ls, eol, final) ==
    IF ls = <<>> THEN <<>>
    ELSE IF Len(ls) = 1 THEN Render(ls[1]) \o (IF final THEN eol ELSE <<>>)
    ELSE Render(ls[1]) \o eol \o Join(Tail(ls), eol, final)

LineSeqs == UNION {[1..n -> LineSet] : n \in 0..MaxLines}

\* ------------------------------------------------------------------------
\* parse_theme as a state machine: a text is chosen, then parsed

PtIdle ==
    /\ pt_lines = <<>>
    /\ pt_eol = <<LF>>
    /\ pt_final = FALSE
    /\ content = <<>>
    /\ pt_pc = "idle"
    /\ pt_result = None

ThIdle ==
    /\ fs = <<>>
    /\ theme = None
    /\ li_icon = <<>>
    /\ li_self = None
    /\ li_resolved = {}
    /\ li_pc = "idle"
    /\ li_result = None

XcIdle ==
    /\ xc_file = <<>>
    /\ input = <<>>
    /\ xc_pos = [hi |-> 0, lo |-> 0]
    /\ ntoc = [hi |-> 0, lo |-> 0]
    /\ xc_i = 0
    /\ img_indices = <<>>
    /\ xc_seeks = <<>>
    /\ imgs = <<>>
    /\ xc_pc = "idle"
    /\ xc_result = [ok |-> FALSE, val |-> <<>>, err |-> "pending"]
    /\ xc_option = None

RgIdle ==
    /\ initial = <<>>
    /\ rg_buf = <<>>
    /\ rg_calls = 0
    /\ rg_pc = "idle"

PtInit ==
    /\ ThIdle
    /\ XcIdle
    /\ RgIdle
    /\ pt_lines \in LineSeqs
    /\ pt_eol \in {<<LF>>, <<CR, LF>>}
    /\ pt_final \in BOOLEAN
    /\ content = Join(pt_lines, pt_eol, pt_final)
    /\ pt_pc = "ready"
    /\ pt_result = None

ParseTheme ==
    /\ pt_pc = "ready"
    /\ pt_result' = parse_theme(content)
    /\ pt_pc' = "done"
    /\ UNCHANGED <<pt_lines, pt_eol, pt_final, content>>
    /\ UNCHANGED <<th_vars, xc_vars, rg_vars>>

SpecParse == PtInit /\ [][ParseTheme]_vars

\* ------------------------------------------------------------------------
\* What a line descriptor says, read off the way the line was written

IsSeparator(ch) == ch \in {SP, TAB, CR, LF, ";", ","}
NotSeparator(ch) == ~IsSeparator(ch)

\* the line starts with Inherits at its first character, and only whitespace
\* stands between the key and an "="
Declares(l) ==
    /\ l.pre = <<>>
    /\ l.key = PATTERN
    /\ \A i \in 1..Len(l.mid) : l.mid[i] \in {SP, TAB}
    /\ l.eq = <<"=">>

\* the first run of non-separator characters after the "="
ValueOf(l) == IF l.val # <<>> THEN l.val ELSE SelectSeq(l.tail, NotSeparator)

Yields(l) == Declares(l) /\ ValueOf(l) # <<>>

YieldingLines == {i \in 1..Len(pt_lines) : Yields(pt_lines[i])}

FirstYielding == CHOOSE i \in YieldingLines : \A j \in YieldingLines : i <= j

\* C9: parse_theme returns the value of the first line, in file order, that
\* matches the Inherits grammar with a non-empty value; lines with an empty
\* value are passed over, a later declaration never overrides it, None is
\* returned when no line yields a value, and a value returned is non-empty
\* and holds no separator character.
C9_FirstNonEmptyDeclaration ==
    pt_pc = "done" =>
        /\ pt_result = IF YieldingLines = {} THEN None
                       ELSE Some(ValueOf(pt_lines[FirstYielding]))
        /\ IsSome(pt_result) =>
               /\ Unwrap(pt_result) # <<>>
               /\ \A i \in 1..Len(Unwrap(pt_result)) :
                      ~IsSeparator(Unwrap(pt_result)[i])

\* two declarations of different values, the first one followed by a
\* separator and more text: the first value is returned
C9_Witness ==
    /\ pt_pc = "done"
    /\ Len(pt_lines) = 2
    /\ Yields(pt_lines[1]) /\ Yields(pt_lines[2])
    /\ pt_lines[1].tail # <<>>
    /\ ValueOf(pt_lines[1]) # ValueOf(pt_lines[2])
    /\ pt_result = Some(ValueOf(pt_lines[1]))

\* C10: a line contributes a value only if it starts with Inherits at its
\* very first character and the first non-whitespace character after the key
\* is "=": a text with no such line parses to None.
C10_OnlyDeclarationsContribute ==
    pt_pc = "done" /\ (\A i \in 1..Len(pt_lines) : ~Declares(pt_lines[i]))
        => pt_result = None

\* " Inherits=A" and "Inherits;=;A" are the only candidates: None
C10_Witness ==
    /\ pt_pc = "done"
    /\ Len(pt_lines) = 2
    /\ Render(pt_lines[1]) = <<SP>> \o PATTERN \o <<"=", "A">>
    /\ Render(pt_lines[2]) = PATTERN \o <<";", "=", ";", "A">>
    /\ pt_result = None

\* ------------------------------------------------------------------------
\* The file system CursorTheme reads. A path is the sequence of its
\* components; a search path entry is a root, a path of one component.

DEFAULT == <<"d", "e", "f", "a", "u", "l", "t">>
ThemeA == <<"A">>
ThemeB == <<"B">>
CURSORS == <<"c", "u", "r", "s", "o", "r", "s">>
INDEX_THEME == <<"i", "n", "d", "e", "x", ".", "t", "h", "e", "m", "e">>
LEFT_PTR == <<"l", "e", "f", "t", "_", "p", "t", "r">>

\* the names a theme is asked for by
ThemeNames == {DEFAULT, ThemeA, ThemeB}

\* the names that may be a directory of a root
DirNames == {DEFAULT, ThemeA}

Roots == {<<"r", "1">>, <<"r", "2">>}

IconNames == {LEFT_PTR}

DeclarationOf(name) ==
    LineOf(<<>>, PATTERN, <<>>, <<"=">>, <<>>, name, <<>>)

SectionLine ==
    LineOf(<<>>, <<>>, <<>>, <<>>, <<>>, <<"[", "T", "]">>, <<>>)

\* the lines an index.theme of the model is written from
IndexLines ==
    {<<SectionLine>>,
     <<SectionLine, DeclarationOf(ThemeA)>>,
     <<DeclarationOf(ThemeB), SectionLine>>}

IndexTexts == {Join(ls, <<LF>>, TRUE) : ls \in IndexLines}

\* what root/name/index.theme may be: no readable file (None), or a file
\* with its text
IndexFiles == {None} \cup {Some(text) : text \in IndexTexts}

\* parse_theme on the texts of the model's files, computed once
parsed == [text \in IndexTexts |-> parse_theme(text)]

NoDir == [dir |-> FALSE, index |-> None, icons |-> {}]

\* what root/name may be: not a directory, or a directory with or without
\* an index.theme, and with the regular files of its cursors directory
DirEntries ==
    {NoDir} \cup
    {[dir |-> TRUE, index |-> ix, icons |-> ic] :
        ix \in IndexFiles, ic \in SUBSET IconNames}

FileSystems == [Roots \X DirNames -> DirEntries]

SearchPaths == UNION {[1..n -> {<<r>> : r \in Roots}] : n \in 0..MaxPaths}

\* Path::is_dir
is_dir(path) ==
    /\ Len(path) = 2
    /\ path[1] \in Roots /\ path[2] \in DirNames
    /\ fs[path[1], path[2]].dir

\* Path::is_file
is_file(path) ==
    /\ Len(path) = 4
    /\ is_dir(SubSeq(path, 1, 2))
    /\ path[3] = CURSORS
    /\ path[4] \in fs[path[1], path[2]].icons

\* std::fs::read_to_string(path).ok()
read_to_string(path) ==
    IF /\ Len(path) = 3
       /\ is_dir(SubSeq(path, 1, 2))
       /\ path[3] = INDEX_THEME
       /\ IsSome(fs[path[1], path[2]].index)
    THEN fs[path[1], path[2]].index
    ELSE None

\* PathBuf::push of a relative component
push(path, component) == Append(path, component)

theme_inherits(file_path) ==
    LET text == read_to_string(file_path)
    IN IF IsSome(text) THEN parsed[Unwrap(text)] ELSE None

\* ------------------------------------------------------------------------
\* CursorTheme::load

\* find_dirs that lists a directory once
RECURSIVE find_dirs_dedup(_, _)
find_dirs_dedup(name, paths) ==
    IF paths = <<>> THEN <<>>
    ELSE LET path == push(paths[Len(paths)], name)
             before == find_dirs_dedup(name, SubSeq(paths, 1, Len(paths) - 1))
         IN IF is_dir(path) /\ \A i \in 1..Len(before) : before[i] # path
            THEN Append(before, path)
            ELSE before

\* the loop "Find dirs"
RECURSIVE find_dirs(_, _)
find_dirs(name, paths) ==
    IF paths = <<>> THEN <<>>
    ELSE LET path == push(Head(paths), name)
         IN (IF is_dir(path) THEN <<path>> ELSE <<>>)
                \o find_dirs(name, Tail(paths))

\* find_inherits where the first declaration found wins
RECURSIVE find_inherits_first(_, _)
find_inherits_first(dirs, inherits) ==
    IF dirs = <<>> THEN inherits
    ELSE LET i == theme_inherits(push(Head(dirs), INDEX_THEME))
         IN IF IsSome(i) THEN Unwrap(i)
            ELSE find_inherits_first(Tail(dirs), inherits)

\* the loop "Find inheritance", from the value inherits holds so far
RECURSIVE find_inherits(_, _)
find_inherits(dirs, inherits) ==
    IF dirs = <<>> THEN inherits
    ELSE LET i == theme_inherits(push(Head(dirs), INDEX_THEME))
         IN find_inherits(Tail(dirs),
                          IF IsSome(i) THEN Unwrap(i) ELSE inherits)

load(name, search_paths) ==
    LET dirs == find_dirs(name, search_paths)
    IN [name |-> name,
        dirs |-> dirs,
        inherits |-> find_inherits(dirs, DEFAULT),
        search_paths |-> search_paths]

\* ------------------------------------------------------------------------
\* CursorTheme::load_icon

\* first_icon that keeps the last directory holding the icon
RECURSIVE last_icon(_, _)
last_icon(dirs, icon_name) ==
    IF dirs = <<>> THEN None
    ELSE LET icon_path == push(push(dirs[Len(dirs)], CURSORS), icon_name)
         IN IF is_file(icon_path) THEN Some(icon_path)
            ELSE last_icon(SubSeq(dirs, 1, Len(dirs) - 1), icon_name)

\* the loop over self.dirs: Some(icon_path) when it returns, None when it
\* falls through
RECURSIVE first_icon(_, _)
first_icon(dirs, icon_name) ==
    IF dirs = <<>> THEN None
    ELSE LET icon_path == push(push(Head(dirs), CURSORS), icon_name)
         IN IF is_file(icon_path) THEN Some(icon_path)
            ELSE first_icon(Tail(dirs), icon_name)

\* load_icon_body without the test self.name == self.inherits
load_icon_body_unguarded(self, icon_name) ==
    LET found == first_icon(self.dirs, icon_name)
    IN IF IsSome(found) THEN [kind |-> "return", value |-> found]
       ELSE [kind |-> "recurse",
             theme |-> load(self.inherits, self.search_paths)]

\* load_icon_body that resolves the parent among the directories found so far
load_icon_body_narrowed(self, icon_name) ==
    LET found == first_icon(self.dirs, icon_name)
    IN IF IsSome(found) THEN [kind |-> "return", value |-> found]
       ELSE IF self.name = self.inherits
            THEN [kind |-> "return", value |-> None]
       ELSE [kind |-> "recurse",
             theme |-> load(self.inherits,
                            [i \in 1..Len(self.dirs) |-> <<self.dirs[i][1]>>])]

\* load_icon_body that returns None on reaching a theme it resolved before
load_icon_body_visited(self, icon_name) ==
    LET found == first_icon(self.dirs, icon_name)
    IN IF IsSome(found) THEN [kind |-> "return", value |-> found]
       ELSE IF self.name = self.inherits \/ self.inherits \in li_resolved
            THEN [kind |-> "return", value |-> None]
       ELSE [kind |-> "recurse",
             theme |-> load(self.inherits, self.search_paths)]

\* one frame of load_icon: it returns a value, or it calls load_icon on the
\* theme it inherits from and returns what that call returns
load_icon_body(self, icon_name) ==
    LET found == first_icon(self.dirs, icon_name)
    IN IF IsSome(found) THEN [kind |-> "return", value |-> found]
       ELSE IF self.name = self.inherits
            THEN [kind |-> "return", value |-> None]
       ELSE [kind |-> "recurse",
             theme |-> load(self.inherits, self.search_paths)]

\* ------------------------------------------------------------------------
\* The caller: it loads a theme, then asks it for an icon

Init ==
    /\ PtIdle
    /\ XcIdle
    /\ RgIdle
    /\ fs \in FileSystems
    /\ theme = None
    /\ li_icon = <<>>
    /\ li_self = None
    /\ li_resolved = {}
    /\ li_pc = "idle"
    /\ li_result = None

\* CursorTheme::load(name, search_paths)
Load ==
    /\ theme = None
    /\ \E name \in ThemeNames, search_paths \in SearchPaths :
           theme' = Some(load(name, search_paths))
    /\ li_icon' = <<>>
    /\ li_self' = None
    /\ li_resolved' = {}
    /\ li_pc' = "idle"
    /\ li_result' = None
    /\ UNCHANGED fs

\* theme.load_icon(icon_name) is entered
CallLoadIcon ==
    /\ li_pc = "idle"
    /\ IsSome(theme)
    /\ \E icon_name \in IconNames : li_icon' = icon_name
    /\ li_self' = theme
    /\ li_resolved' = {}
    /\ li_pc' = "running"
    /\ li_result' = None
    /\ UNCHANGED <<fs, theme>>

\* the current frame of load_icon returns
LoadIconReturn ==
    /\ li_pc = "running"
    /\ LET body == load_icon_body(Unwrap(li_self), li_icon)
       IN /\ body.kind = "return"
          /\ li_result' = body.value
    /\ li_pc' = "done"
    /\ UNCHANGED <<fs, theme, li_icon, li_self, li_resolved>>

\* the current frame of load_icon resolves the inherited theme and calls
\* load_icon on it
LoadIconRecurse ==
    /\ li_pc = "running"
    /\ LET body == load_icon_body(Unwrap(li_self), li_icon)
       IN /\ body.kind = "recurse"
          /\ li_self' = Some(body.theme)
    /\ li_resolved' = li_resolved \cup {Unwrap(li_self).inherits}
    /\ UNCHANGED <<fs, theme, li_icon, li_pc, li_result>>

Next ==
    \/ (Load /\ UNCHANGED <<pt_vars, xc_vars, rg_vars>>)
    \/ (CallLoadIcon /\ UNCHANGED <<pt_vars, xc_vars, rg_vars>>)
    \/ (LoadIconReturn /\ UNCHANGED <<pt_vars, xc_vars, rg_vars>>)
    \/ (LoadIconRecurse /\ UNCHANGED <<pt_vars, xc_vars, rg_vars>>)

Spec == Init /\ [][Next]_vars

\* a frame of load_icon that is running runs to its return or to its call
LoadIconStep ==
    (LoadIconReturn \/ LoadIconRecurse)
        /\ UNCHANGED <<pt_vars, xc_vars, rg_vars>>

\* the file systems whose theme directories all lie under the first root;
\* search path lists still name both roots
OneRootFileSystems ==
    {f \in FileSystems : \A n \in DirNames : f[<<"r", "2">>, n] = NoDir}

InitOneRoot ==
    /\ PtIdle
    /\ XcIdle
    /\ RgIdle
    /\ fs \in OneRootFileSystems
    /\ theme = None
    /\ li_icon = <<>>
    /\ li_self = None
    /\ li_resolved = {}
    /\ li_pc = "idle"
    /\ li_result = None

\* the same program, a load_icon call that was entered being executed
SpecFair == InitOneRoot /\ [][Next]_vars /\ WF_vars(LoadIconStep)

\* ------------------------------------------------------------------------
\* What the file system holds, read off fs without the code's loops

\* the value the lines of an index.theme declare: that of the first line
\* that yields one
DeclaredIn(text) ==
    LET ls == CHOOSE l \in IndexLines : Join(l, <<LF>>, TRUE) = text
        ys == {i \in 1..Len(ls) : Yields(ls[i])}
    IN IF ys = {} THEN None
       ELSE Some(ValueOf(ls[CHOOSE i \in ys : \A j \in ys : i <= j]))

\* the value root/name/index.theme declares
DeclaredAt(root, name) ==
    IF IsSome(fs[root, name].index)
    THEN DeclaredIn(Unwrap(fs[root, name].index))
    ELSE None

\* the positions of search_paths whose root holds a directory called name
Matching(name, search_paths) ==
    {i \in 1..Len(search_paths) :
        name \in DirNames /\ fs[search_paths[i][1], name].dir}

\* those of them whose index.theme declares a value
Declaring(name, search_paths) ==
    {i \in Matching(name, search_paths) :
        IsSome(DeclaredAt(search_paths[i][1], name))}

\* the k-th smallest element of a set of numbers
Nth(S, k) == CHOOSE i \in S : Cardinality({j \in S : j <= i}) = k

Largest(S) == CHOOSE i \in S : \A j \in S : j <= i

ExpectedDirs(name, search_paths) ==
    LET m == Matching(name, search_paths)
    IN [k \in 1..Cardinality(m) |-> <<search_paths[Nth(m, k)][1], name>>]

ExpectedInherits(name, search_paths) ==
    LET d == Declaring(name, search_paths)
    IN IF d = {} THEN DEFAULT
       ELSE Unwrap(DeclaredAt(search_paths[Largest(d)][1], name))

ExpectedTheme(name, search_paths) ==
    [name |-> name,
     dirs |-> ExpectedDirs(name, search_paths),
     inherits |-> ExpectedInherits(name, search_paths),
     search_paths |-> search_paths]

\* the themes the run holds: the caller's and the current frame's
HeldThemes == {Unwrap(t) : t \in {o \in {theme, li_self} : IsSome(o)}}

\* the positions of t.dirs whose cursors directory holds the icon asked for
Holders(t) ==
    {i \in 1..Len(t.dirs) : li_icon \in fs[t.dirs[i][1], t.dirs[i][2]].icons}

IconPath(dir) == <<dir[1], dir[2], CURSORS, li_icon>>

FirstHeld(t) == IconPath(t.dirs[Nth(Holders(t), 1)])

\* C1: load_icon returns dir/cursors/icon_name for the first of the theme's
\* own directories, in their stored order, that holds the icon; whenever an
\* own directory holds it no inherited theme is resolved, even if the parent
\* holds the icon too.
C1_FirstOwnDirectory ==
    (li_pc \in {"running", "done"} /\ Holders(Unwrap(theme)) # {}) =>
        /\ li_resolved = {}
        /\ li_self = theme
        /\ li_pc = "done" => li_result = Some(FirstHeld(Unwrap(theme)))

\* two own directories and the parent theme all hold the icon: the first own
\* directory's file is returned
C1_Witness ==
    /\ li_pc = "done"
    /\ Len(Unwrap(theme).dirs) = 2
    /\ Unwrap(theme).dirs[1] # Unwrap(theme).dirs[2]
    /\ Holders(Unwrap(theme)) = {1, 2}
    /\ Unwrap(theme).name # Unwrap(theme).inherits
    /\ Holders(ExpectedTheme(Unwrap(theme).inherits,
                             Unwrap(theme).search_paths)) # {}
    /\ li_result = Some(IconPath(Unwrap(theme).dirs[1]))

\* C2: when no own directory holds the icon and name # inherits, load_icon
\* returns what load_icon returns on load(inherits, search_paths), the search
\* path list unchanged; if the parent's directories hold the icon, the
\* parent's file is returned.
C2_FallsBackToParent ==
    /\ [][(/\ li_pc = "running"
           /\ Holders(Unwrap(li_self)) = {}
           /\ Unwrap(li_self).name # Unwrap(li_self).inherits)
          => /\ li_pc' = "running"
             /\ li_self' = Some(ExpectedTheme(Unwrap(li_self).inherits,
                                              Unwrap(li_self).search_paths))
             /\ li_icon' = li_icon
             /\ li_result' = li_result]_vars
    /\ []((/\ li_pc = "done"
           /\ Holders(Unwrap(theme)) = {}
           /\ Unwrap(theme).name # Unwrap(theme).inherits
           /\ Holders(ExpectedTheme(Unwrap(theme).inherits,
                                    Unwrap(theme).search_paths)) # {})
          => li_result = Some(FirstHeld(ExpectedTheme(
                                  Unwrap(theme).inherits,
                                  Unwrap(theme).search_paths))))

\* the theme has directories without the icon, its parent holds it: the
\* parent's file is returned
C2_Witness ==
    /\ li_pc = "done"
    /\ Len(Unwrap(theme).dirs) > 0
    /\ Holders(Unwrap(theme)) = {}
    /\ Unwrap(theme).name # Unwrap(theme).inherits
    /\ li_resolved = {Unwrap(theme).inherits}
    /\ IsSome(li_result)
    /\ li_result = Some(FirstHeld(ExpectedTheme(Unwrap(theme).inherits,
                                                Unwrap(theme).search_paths)))

\* C3: on a theme whose name equals its inherits and whose directories do
\* not hold the icon, load_icon returns None without resolving a further
\* theme, and a chain that reaches such a theme ends there with None.
C3_SelfReferentialEnds ==
    /\ [][(/\ li_pc = "running"
           /\ Holders(Unwrap(li_self)) = {}
           /\ Unwrap(li_self).name = Unwrap(li_self).inherits)
          => /\ li_pc' = "done"
             /\ li_result' = None
             /\ li_self' = li_self
             /\ li_resolved' = li_resolved]_vars
    /\ []((/\ li_pc = "done"
           /\ Holders(Unwrap(theme)) = {}
           /\ Unwrap(theme).name = Unwrap(theme).inherits)
          => li_result = None /\ li_resolved = {})

\* the default theme, with a directory and no declaration, lacks the icon
C3_Witness ==
    /\ li_pc = "done"
    /\ Unwrap(theme).name = DEFAULT
    /\ Unwrap(theme).inherits = DEFAULT
    /\ Len(Unwrap(theme).dirs) > 0
    /\ Holders(Unwrap(theme)) = {}
    /\ li_resolved = {}
    /\ li_result = None

\* the themes a chain of n inheritance steps from name goes through
RECURSIVE Chain(_, _, _)
Chain(name, search_paths, n) ==
    IF n = 0 THEN {name}
    ELSE {name} \cup Chain(ExpectedInherits(name, search_paths),
                           search_paths, n - 1)

\* the themes load_icon can reach from t
Ancestry(t) == Chain(t.name, t.search_paths, Cardinality(ThemeNames))

\* no theme reachable from t inherits from itself, and none holds the icon:
\* the chain from t runs into a cycle of two or more themes
Doomed(t) ==
    \A n \in Ancestry(t) :
        /\ ExpectedInherits(n, t.search_paths) # n
        /\ Holders(ExpectedTheme(n, t.search_paths)) = {}

\* C13: when the themes reachable from a theme form a cycle with no
\* self-referential theme on it and none of them holds the icon, load_icon
\* never returns: from then on the call is running, and it resolves an
\* inherited theme again and again, forever.
C13_CycleNeverReturns ==
    /\ []((li_pc = "running" /\ Doomed(Unwrap(theme)))
              => [](li_pc = "running"))
    /\ (<>(li_pc = "running" /\ Doomed(Unwrap(theme))))
           => []<><<LoadIconRecurse>>_vars

\* default declares Inherits=A, A declares nothing and so inherits default:
\* the call is back at default, both themes resolved, and still running
C13_Witness ==
    /\ li_pc = "running"
    /\ Doomed(Unwrap(theme))
    /\ Unwrap(theme).name = DEFAULT
    /\ Unwrap(theme).inherits = ThemeA
    /\ Declaring(ThemeA, Unwrap(theme).search_paths) = {}
    /\ li_resolved = {ThemeA, DEFAULT}
    /\ li_self = theme

\* C4: the inherits of a loaded theme is the value declared by the last
\* matching directory, in search path order, that declares one, and
\* "default" when none does.
C4_LastDeclarationWins ==
    \A t \in HeldThemes :
        t.inherits = ExpectedInherits(t.name, t.search_paths)

\* the first of two directories declares a value, the second has no
\* declaration: the value of the first stays
C4_Witness ==
    /\ IsSome(theme)
    /\ Len(Unwrap(theme).dirs) = 2
    /\ Declaring(Unwrap(theme).name, Unwrap(theme).search_paths) = {1}
    /\ Unwrap(theme).inherits # DEFAULT
    /\ Some(Unwrap(theme).inherits)
           = DeclaredAt(Unwrap(theme).dirs[1][1], Unwrap(theme).name)

\* C5: the dirs of a loaded theme are root/name for each entry of the search
\* path list whose root/name is a directory, in the order of the list, an
\* entry listed twice counted twice.
C5_DirsFollowSearchPaths ==
    \A t \in HeldThemes : t.dirs = ExpectedDirs(t.name, t.search_paths)

\* the same root listed twice gives its directory twice
C5_Witness ==
    /\ IsSome(theme)
    /\ Len(Unwrap(theme).search_paths) = 2
    /\ Unwrap(theme).search_paths[1] = Unwrap(theme).search_paths[2]
    /\ Len(Unwrap(theme).dirs) = 2
    /\ Unwrap(theme).dirs[1] = Unwrap(theme).dirs[2]

\* ------------------------------------------------------------------------
\* u32 and usize values. A value is [hi, lo], its two 16-bit halves, so that
\* every u32 has one; the streams of the model are shorter than 65536 bytes.

U32(n) == [hi |-> n \div 65536, lo |-> n % 65536]

\* u32::from_le_bytes
from_le_bytes(b) == [hi |-> b[3] + 256 * b[4], lo |-> b[1] + 256 * b[2]]

\* a > b
gt32(a, b) == a.hi > b.hi \/ (a.hi = b.hi /\ a.lo > b.lo)

\* the four bytes of a value, least significant first
Bytes32(a) == <<a.lo % 256, a.lo \div 256, a.hi % 256, a.hi \div 256>>

\* mul32 that wraps at 2^16: the two low bytes of the product
mul32_low_half(a, b) ==
    LET x == Bytes32(a)
        y == Bytes32(b)
        c1 == x[1] * y[1]
        c2 == x[1] * y[2] + x[2] * y[1] + c1 \div 256
    IN from_le_bytes(<<c1 % 256, c2 % 256, 0, 0>>)

\* u32 multiplication, wrapping at 2^32: schoolbook on the bytes
mul32(a, b) ==
    LET x == Bytes32(a)
        y == Bytes32(b)
        c1 == x[1] * y[1]
        c2 == x[1] * y[2] + x[2] * y[1] + c1 \div 256
        c3 == x[1] * y[3] + x[2] * y[2] + x[3] * y[1] + c2 \div 256
        c4 == x[1] * y[4] + x[2] * y[3] + x[3] * y[2] + x[4] * y[1]
                  + c3 \div 256
    IN from_le_bytes(<<c1 % 256, c2 % 256, c3 % 256, c4 % 256>>)

\* ------------------------------------------------------------------------
\* The stream: the bytes inp and a position. An operation returns
\* [ok, val, err, pos]: Ok(val) or Err(err), and the position it leaves.

Ok(v, pos) == [ok |-> TRUE, val |-> v, err |-> "", pos |-> pos]
Err(e, pos) == [ok |-> FALSE, val |-> <<>>, err |-> e, pos |-> pos]

\* Read::read_exact of len bytes
read_exact(inp, pos, len) ==
    IF pos.hi = 0 /\ len.hi = 0 /\ pos.lo + len.lo <= Len(inp)
    THEN Ok(SubSeq(inp, pos.lo + 1, pos.lo + len.lo), U32(pos.lo + len.lo))
    ELSE Err("UnexpectedEof", pos)

\* StreamExt::take_bytes
take_bytes(inp, pos, len) == read_exact(inp, pos, len)

\* StreamExt::tag
tag(inp, pos, t) ==
    LET data == read_exact(inp, pos, U32(Len(t)))
    IN IF ~data.ok THEN data
       ELSE IF data.val # t THEN Err("Tag mismatch", data.pos)
       ELSE Ok(<<>>, data.pos)

\* StreamExt::u32_le
u32_le(inp, pos) ==
    LET bytes == take_bytes(inp, pos, U32(4))
    IN IF ~bytes.ok THEN bytes ELSE Ok(from_le_bytes(bytes.val), bytes.pos)

\* Seek::seek(SeekFrom::Start(index))
seek(index) == index

\* ------------------------------------------------------------------------
\* parse_header, parse_toc, parse_img

XCUR == <<88, 99, 117, 114>>
IMAGE_HEADER_SIZE == <<36, 0, 0, 0>>
IMAGE_TYPE_TAG == <<2, 0, 253, 255>>
IMAGE_VERSION == <<1, 0, 0, 0>>

\* 0xfffd_0002
IMAGE_TYPE == [hi |-> 65533, lo |-> 2]

\* 0x7fff
MAX_DIMENSION == [hi |-> 0, lo |-> 32767]

ZERO == [hi |-> 0, lo |-> 0]

parse_header(inp, pos) ==
    LET t == tag(inp, pos, XCUR)
    IN IF ~t.ok THEN t ELSE
       LET a == u32_le(inp, t.pos)
       IN IF ~a.ok THEN a ELSE
          LET b == u32_le(inp, a.pos)
          IN IF ~b.ok THEN b ELSE u32_le(inp, b.pos)

parse_toc(inp, pos) ==
    LET toctype == u32_le(inp, pos)
    IN IF ~toctype.ok THEN toctype ELSE
       LET subtype == u32_le(inp, toctype.pos)
       IN IF ~subtype.ok THEN subtype ELSE
          LET p == u32_le(inp, subtype.pos)
          IN IF ~p.ok THEN p
             ELSE Ok([toctype |-> toctype.val,
                      subtype |-> subtype.val,
                      pos |-> p.val], p.pos)

\* rgba_to_argb that copies a last group of fewer than 4 bytes as it is
RECURSIVE rgba_to_argb_keep_tail(_)
rgba_to_argb_keep_tail(i) ==
    IF i = <<>> THEN <<>>
    ELSE LET rgba == SubSeq(i, 1, IF Len(i) < 4 THEN Len(i) ELSE 4)
         IN IF Len(rgba) < 4 THEN rgba
            ELSE <<rgba[4], rgba[1], rgba[2], rgba[3]>>
                     \o rgba_to_argb_keep_tail(SubSeq(i, 5, Len(i)))

\* rgba_to_argb that pushes rgba[2] before rgba[1]
RECURSIVE rgba_to_argb_swapped(_)
rgba_to_argb_swapped(i) ==
    IF i = <<>> THEN <<>>
    ELSE LET rgba == SubSeq(i, 1, IF Len(i) < 4 THEN Len(i) ELSE 4)
         IN IF Len(rgba) < 4 THEN <<>>
            ELSE <<rgba[4], rgba[1], rgba[3], rgba[2]>>
                     \o rgba_to_argb_swapped(SubSeq(i, 5, Len(i)))

\* the loop of rgba_to_argb over i.chunks(4)
RECURSIVE rgba_to_argb(_)
rgba_to_argb(i) ==
    IF i = <<>> THEN <<>>
    ELSE LET rgba == SubSeq(i, 1, IF Len(i) < 4 THEN Len(i) ELSE 4)
         IN IF Len(rgba) < 4 THEN <<>>
            ELSE <<rgba[4], rgba[1], rgba[2], rgba[3]>>
                     \o rgba_to_argb(SubSeq(i, 5, Len(i)))

\* check_and_read_pixels with the test for zero before the test for size
check_zero_first(inp, pos, size, width, height, xhot, yhot, delay) ==
    IF width = ZERO \/ height = ZERO
    THEN Err("Image with zero width or height", pos)
    ELSE IF gt32(width, MAX_DIMENSION) \/ gt32(height, MAX_DIMENSION)
    THEN Err("Image too large", pos)
    ELSE IF gt32(xhot, width) \/ gt32(yhot, height)
    THEN Err("Hotspot outside image", pos)
    ELSE LET img_length == mul32(mul32(U32(4), width), height)
             pixels_rgba == take_bytes(inp, pos, img_length)
         IN IF ~pixels_rgba.ok THEN pixels_rgba
            ELSE Ok([size |-> size, width |-> width, height |-> height,
                     xhot |-> xhot, yhot |-> yhot, delay |-> delay,
                     pixels_argb |-> rgba_to_argb(pixels_rgba.val),
                     pixels_rgba |-> pixels_rgba.val],
                    pixels_rgba.pos)

\* the part of parse_img after the fixed fields are read
check_and_read_pixels(inp, pos, size, width, height, xhot, yhot, delay) ==
    IF gt32(width, MAX_DIMENSION) \/ gt32(height, MAX_DIMENSION)
    THEN Err("Image too large", pos)
    ELSE IF width = ZERO \/ height = ZERO
    THEN Err("Image with zero width or height", pos)
    ELSE IF gt32(xhot, width) \/ gt32(yhot, height)
    THEN Err("Hotspot outside image", pos)
    ELSE LET img_length == mul32(mul32(U32(4), width), height)
             pixels_rgba == take_bytes(inp, pos, img_length)
         IN IF ~pixels_rgba.ok THEN pixels_rgba
            ELSE Ok([size |-> size, width |-> width, height |-> height,
                     xhot |-> xhot, yhot |-> yhot, delay |-> delay,
                     pixels_argb |-> rgba_to_argb(pixels_rgba.val),
                     pixels_rgba |-> pixels_rgba.val],
                    pixels_rgba.pos)

\* the fields width .. delay of parse_img, then the checks
read_dimensions(inp, pos, size) ==
    LET width == u32_le(inp, pos)
    IN IF ~width.ok THEN width ELSE
       LET height == u32_le(inp, width.pos)
       IN IF ~height.ok THEN height ELSE
          LET xhot == u32_le(inp, height.pos)
          IN IF ~xhot.ok THEN xhot ELSE
             LET yhot == u32_le(inp, xhot.pos)
             IN IF ~yhot.ok THEN yhot ELSE
                LET delay == u32_le(inp, yhot.pos)
                IN IF ~delay.ok THEN delay
                   ELSE check_and_read_pixels(inp, delay.pos, size,
                            width.val, height.val, xhot.val, yhot.val,
                            delay.val)

parse_img(inp, pos) ==
    LET t1 == tag(inp, pos, IMAGE_HEADER_SIZE)
    IN IF ~t1.ok THEN t1 ELSE
       LET t2 == tag(inp, t1.pos, IMAGE_TYPE_TAG)
       IN IF ~t2.ok THEN t2 ELSE
          LET size == u32_le(inp, t2.pos)
          IN IF ~size.ok THEN size ELSE
             LET t3 == tag(inp, size.pos, IMAGE_VERSION)
             IN IF ~t3.ok THEN t3
                ELSE read_dimensions(inp, t3.pos, size.val)

\* ------------------------------------------------------------------------
\* The containers handed to the parser, written from descriptors: a header,
\* a table of contents, then the chunks the entries point at.

ChunkOf(hdr, typ, ver, size, width, height, xhot, yhot, npix) ==
    [hdr |-> hdr, typ |-> typ, ver |-> ver, size |-> size,
     width |-> width, height |-> height, xhot |-> xhot, yhot |-> yhot,
     delay |-> 10 + size, npix |-> npix]

\* a chunk with the fixed tags right and npix bytes of pixels after them
Tagged(size, width, height, xhot, yhot, npix) ==
    ChunkOf(IMAGE_HEADER_SIZE, IMAGE_TYPE_TAG, IMAGE_VERSION,
            size, width, height, xhot, yhot, npix)

BadHeaderSizeChunk ==
    ChunkOf(<<37, 0, 0, 0>>, IMAGE_TYPE_TAG, IMAGE_VERSION, 11, 1, 1, 0, 0, 4)

Chunks ==
    {Tagged(1, 1, 1, 0, 0, 4),          \* 1 x 1
     Tagged(2, 2, 1, 2, 1, 8),          \* 2 x 1, the hotspot on the bounds
     Tagged(15, 1, 3, 0, 1, 12),        \* 1 x 3
     Tagged(3, 0, 1, 0, 0, 4),          \* width 0
     Tagged(4, 1, 0, 0, 0, 4),          \* height 0
     Tagged(5, 32768, 1, 0, 0, 4),      \* width 0x8000
     Tagged(6, 1, 32768, 0, 0, 4),      \* height 0x8000
     Tagged(7, 32768, 0, 0, 0, 4),      \* width 0x8000 and height 0
     Tagged(8, 0, 1, 1, 0, 4),          \* width 0 and the hotspot beyond it
     Tagged(9, 1, 1, 2, 0, 4),          \* xhot > width
     Tagged(10, 1, 1, 0, 2, 4),         \* yhot > height
     BadHeaderSizeChunk,
     ChunkOf(IMAGE_HEADER_SIZE, <<1, 0, 254, 255>>, IMAGE_VERSION,
             12, 1, 1, 0, 0, 4),
     ChunkOf(IMAGE_HEADER_SIZE, IMAGE_TYPE_TAG, <<2, 0, 0, 0>>,
             13, 1, 1, 0, 0, 4),
     Tagged(14, 32767, 1, 0, 0, 8),     \* width 0x7fff, too few pixels
     Tagged(16, 32767, 32767, 32767, 32767, 4),
                                        \* 0x7fff x 0x7fff, too few pixels
     Tagged(17, 256, 128, 0, 0, 4)}     \* 4 * 256 * 128 = 0x20000, too few

\* a chunk type that is not the image type (0xfffe_0001)
OTHER_TYPE == [hi |-> 65534, lo |-> 1]

\* an offset past the end of every container of the model (0xffff_ffff)
FAR_OFFSET == [hi |-> 65535, lo |-> 65535]

EntryOf(toctype, chunk) ==
    [toctype |-> toctype, chunk |-> chunk, offset |-> FAR_OFFSET]

\* an entry points at a chunk of its own, or past the end
Entries ==
    {EntryOf(IMAGE_TYPE, Some(c)) : c \in Chunks}
    \cup {EntryOf(IMAGE_TYPE, None),
          EntryOf(OTHER_TYPE, None),
          EntryOf(OTHER_TYPE, Some(BadHeaderSizeChunk))}

Variants ==
    {"plain", "bad_magic", "reversed", "cut_last_byte", "cut_header",
     "cut_toc"}

Files ==
    [variant : Variants,
     entries : UNION {[1..n -> Entries] : n \in 0..MaxToc}]

\* the pixel bytes of a chunk
Pixels(c) == [k \in 1..c.npix |-> (16 * c.size + k) % 256]

Blob(c) ==
    c.hdr \o c.typ \o Bytes32(U32(c.size)) \o c.ver
        \o Bytes32(U32(c.width)) \o Bytes32(U32(c.height))
        \o Bytes32(U32(c.xhot)) \o Bytes32(U32(c.yhot))
        \o Bytes32(U32(c.delay)) \o Pixels(c)

BlobLen(e) == IF IsSome(e.chunk) THEN 36 + Unwrap(e.chunk).npix ELSE 0

\* the chunks lie in the order of the entries, or in the reverse order
LaidBefore(f, i) ==
    IF f.variant = "reversed"
    THEN {j \in 1..Len(f.entries) : j > i}
    ELSE {j \in 1..Len(f.entries) : j < i}

RECURSIVE SumLen(_, _)
SumLen(es, J) ==
    IF J = {} THEN 0
    ELSE LET j == CHOOSE x \in J : TRUE
         IN BlobLen(es[j]) + SumLen(es, J \ {j})

TocEnd(f) == 16 + 12 * Len(f.entries)

FullLen(f) == TocEnd(f) + SumLen(f.entries, 1..Len(f.entries))

\* the offset entry i holds
OffsetOf(f, i) ==
    IF IsSome(f.entries[i].chunk)
    THEN U32(TocEnd(f) + SumLen(f.entries, LaidBefore(f, i)))
    ELSE f.entries[i].offset

HeaderBytes(f) ==
    (IF f.variant = "bad_magic" THEN <<88, 99, 117, 115>> ELSE XCUR)
        \o Bytes32(U32(16)) \o Bytes32(U32(65536))
        \o Bytes32(U32(Len(f.entries)))

RECURSIVE TocBytes(_, _)
TocBytes(f, i) ==
    IF i > Len(f.entries) THEN <<>>
    ELSE Bytes32(f.entries[i].toctype) \o Bytes32(U32(BlobLen(f.entries[i])))
             \o Bytes32(OffsetOf(f, i)) \o TocBytes(f, i + 1)

\* the chunks from position i on, in the order they lie in
RECURSIVE BlobBytes(_, _)
BlobBytes(f, i) ==
    IF i < 1 \/ i > Len(f.entries) THEN <<>>
    ELSE (IF IsSome(f.entries[i].chunk)
          THEN Blob(Unwrap(f.entries[i].chunk)) ELSE <<>>)
             \o BlobBytes(f, IF f.variant = "reversed" THEN i - 1 ELSE i + 1)

\* how many bytes of the container the stream holds
KeptLen(f) ==
    CASE f.variant = "cut_last_byte" -> FullLen(f) - 1
      [] f.variant = "cut_header" -> 15
      [] f.variant = "cut_toc" -> TocEnd(f) - 1
      [] OTHER -> FullLen(f)

Rendered(f) ==
    SubSeq(HeaderBytes(f) \o TocBytes(f, 1)
               \o BlobBytes(f, IF f.variant = "reversed"
                               THEN Len(f.entries) ELSE 1),
           1, KeptLen(f))

\* ------------------------------------------------------------------------
\* parse_xcursor_stream, and parse_xcursor around it

XcInit ==
    /\ PtIdle
    /\ ThIdle
    /\ RgIdle
    /\ xc_file \in Files
    /\ input = Rendered(xc_file)
    /\ xc_pos = ZERO
    /\ ntoc = ZERO
    /\ xc_i = 0
    /\ img_indices = <<>>
    /\ xc_seeks = <<>>
    /\ imgs = <<>>
    /\ xc_pc = "header"
    /\ xc_result = [ok |-> FALSE, val |-> <<>>, err |-> "pending"]
    /\ xc_option = None

\* an error is propagated by "?": parse_xcursor_stream returns Err(e), and
\* parse_xcursor turns it into None
Fail(e) ==
    /\ xc_result' = [ok |-> FALSE, val |-> <<>>, err |-> e]
    /\ xc_option' = None
    /\ xc_pc' = "done"

\* let ntoc = parse_header(input)?
ParseHeader ==
    /\ xc_pc = "header"
    /\ LET r == parse_header(input, xc_pos)
       IN IF r.ok
          THEN /\ ntoc' = r.val
               /\ xc_pos' = r.pos
               /\ xc_pc' = "toc"
               /\ UNCHANGED <<xc_result, xc_option>>
          ELSE /\ Fail(r.err)
               /\ UNCHANGED <<ntoc, xc_pos>>
    /\ UNCHANGED <<xc_file, input, xc_i, img_indices, xc_seeks, imgs>>

\* one turn of the loop over 0..ntoc that keeps every entry's position
ParseTocUnfiltered ==
    /\ xc_pc = "toc"
    /\ gt32(ntoc, U32(xc_i))
    /\ LET r == parse_toc(input, xc_pos)
       IN IF r.ok
          THEN /\ img_indices' = Append(img_indices, r.val.pos)
               /\ xc_pos' = r.pos
               /\ xc_i' = xc_i + 1
               /\ UNCHANGED <<xc_pc, xc_result, xc_option>>
          ELSE /\ Fail(r.err)
               /\ UNCHANGED <<img_indices, xc_pos, xc_i>>
    /\ UNCHANGED <<xc_file, input, ntoc, xc_seeks, imgs>>

\* one turn of the loop over 0..ntoc
ParseToc ==
    /\ xc_pc = "toc"
    /\ gt32(ntoc, U32(xc_i))
    /\ LET r == parse_toc(input, xc_pos)
       IN IF r.ok
          THEN /\ img_indices' = IF r.val.toctype = IMAGE_TYPE
                                 THEN Append(img_indices, r.val.pos)
                                 ELSE img_indices
               /\ xc_pos' = r.pos
               /\ xc_i' = xc_i + 1
               /\ UNCHANGED <<xc_pc, xc_result, xc_option>>
          ELSE /\ Fail(r.err)
               /\ UNCHANGED <<img_indices, xc_pos, xc_i>>
    /\ UNCHANGED <<xc_file, input, ntoc, xc_seeks, imgs>>

\* the loop over 0..ntoc ends; imgs is created empty
EndToc ==
    /\ xc_pc = "toc"
    /\ ~gt32(ntoc, U32(xc_i))
    /\ imgs' = <<>>
    /\ xc_pc' = "imgs"
    /\ UNCHANGED <<xc_file, input, xc_pos, ntoc, xc_i, img_indices, xc_seeks,
                   xc_result, xc_option>>

\* one turn of the loop over img_indices that passes over a chunk it cannot
\* decode
ParseImgBestEffort ==
    /\ xc_pc = "imgs"
    /\ Len(xc_seeks) < Len(img_indices)
    /\ LET index == img_indices[Len(xc_seeks) + 1]
           r == parse_img(input, seek(index))
       IN /\ xc_seeks' = Append(xc_seeks, index)
          /\ imgs' = IF r.ok THEN Append(imgs, r.val) ELSE imgs
          /\ xc_pos' = r.pos
          /\ UNCHANGED <<xc_pc, xc_result, xc_option>>
    /\ UNCHANGED <<xc_file, input, ntoc, xc_i, img_indices>>

\* one turn of the loop over img_indices: seek, then parse_img
ParseImg ==
    /\ xc_pc = "imgs"
    /\ Len(xc_seeks) < Len(img_indices)
    /\ LET index == img_indices[Len(xc_seeks) + 1]
           r == parse_img(input, seek(index))
       IN /\ xc_seeks' = Append(xc_seeks, index)
          /\ IF r.ok
             THEN /\ imgs' = Append(imgs, r.val)
                  /\ xc_pos' = r.pos
                  /\ UNCHANGED <<xc_pc, xc_result, xc_option>>
             ELSE /\ Fail(r.err)
                  /\ UNCHANGED <<imgs, xc_pos>>
    /\ UNCHANGED <<xc_file, input, ntoc, xc_i, img_indices>>

\* Ok(imgs), which parse_xcursor turns into Some(imgs)
Return ==
    /\ xc_pc = "imgs"
    /\ Len(xc_seeks) = Len(img_indices)
    /\ xc_result' = [ok |-> TRUE, val |-> imgs, err |-> ""]
    /\ xc_option' = Some(imgs)
    /\ xc_pc' = "done"
    /\ UNCHANGED <<xc_file, input, xc_pos, ntoc, xc_i, img_indices, xc_seeks,
                   imgs>>

XcNext ==
    \/ (ParseHeader /\ UNCHANGED <<pt_vars, th_vars, rg_vars>>)
    \/ (ParseToc /\ UNCHANGED <<pt_vars, th_vars, rg_vars>>)
    \/ (EndToc /\ UNCHANGED <<pt_vars, th_vars, rg_vars>>)
    \/ (ParseImg /\ UNCHANGED <<pt_vars, th_vars, rg_vars>>)
    \/ (Return /\ UNCHANGED <<pt_vars, th_vars, rg_vars>>)

SpecXcur == XcInit /\ [][XcNext]_vars

\* ------------------------------------------------------------------------
\* What a container descriptor says, in numbers, without the bytes

\* the positions of the image entries, in table-of-contents order
ImageEntries(f) ==
    {i \in 1..Len(f.entries) : f.entries[i].toctype = IMAGE_TYPE}

HeaderIntact(f) == f.variant # "bad_magic" /\ KeptLen(f) >= 16

TocIntact(f) == KeptLen(f) >= TocEnd(f)

\* how many bytes the stream holds from the offset of entry i on
Available(f, i) ==
    IF IsSome(f.entries[i].chunk)
    THEN LET o == TocEnd(f) + SumLen(f.entries, LaidBefore(f, i))
         IN IF KeptLen(f) > o THEN KeptLen(f) - o ELSE 0
    ELSE 0

TagsRight(c) ==
    /\ c.hdr = IMAGE_HEADER_SIZE
    /\ c.typ = IMAGE_TYPE_TAG
    /\ c.ver = IMAGE_VERSION

DimensionsRight(c) ==
    /\ 0 < c.width /\ c.width <= 32767
    /\ 0 < c.height /\ c.height <= 32767
    /\ c.xhot <= c.width
    /\ c.yhot <= c.height

\* entry i points at a chunk that decodes
Decodes(f, i) ==
    /\ IsSome(f.entries[i].chunk)
    /\ LET c == Unwrap(f.entries[i].chunk)
       IN /\ TagsRight(c)
          /\ DimensionsRight(c)
          /\ c.npix % 4 = 0
          /\ c.npix \div 4 = c.width * c.height
          /\ Available(f, i) >= 36 + c.npix

\* the container parses
Parses(f) ==
    /\ HeaderIntact(f)
    /\ TocIntact(f)
    /\ \A i \in ImageEntries(f) : Decodes(f, i)

\* each pixel's last byte moved to its front
Rotated(px) ==
    [j \in 1..Len(px) |-> px[4 * ((j - 1) \div 4) + ((j + 2) % 4) + 1]]

ExpectedImage(c) ==
    [size |-> U32(c.size), width |-> U32(c.width), height |-> U32(c.height),
     xhot |-> U32(c.xhot), yhot |-> U32(c.yhot), delay |-> U32(c.delay),
     pixels_argb |-> Rotated(Pixels(c)),
     pixels_rgba |-> Pixels(c)]

\* C6: parsing is fail-fast. With a wrong magic, a short header or table of
\* contents, or an image entry whose chunk does not decode,
\* parse_xcursor_stream returns an error and parse_xcursor None: no image is
\* returned, even when earlier chunks decoded.
C6_FailFast ==
    (xc_pc = "done" /\ ~Parses(xc_file)) =>
        /\ ~xc_result.ok
        /\ xc_result.val = <<>>
        /\ xc_option = None

\* the first image chunk decoded, the second does not: an error, no image
C6_Witness ==
    /\ xc_pc = "done"
    /\ Len(imgs) = 1
    /\ Len(xc_seeks) = 2
    /\ Decodes(xc_file, 1)
    /\ ~Decodes(xc_file, 2)
    /\ ~xc_result.ok
    /\ xc_option = None

\* C7: a successful parse returns one Image per image entry, in
\* table-of-contents order, each decoded from the entry's offset; the offsets
\* of other entries are never sought, and cannot make the parse fail.
C7_ImagesInTocOrder ==
    LET f == xc_file
        ie == ImageEntries(f)
    IN xc_pc # "idle" =>
        /\ Len(xc_seeks) <= Cardinality(ie)
        /\ \A k \in 1..Len(xc_seeks) : xc_seeks[k] = OffsetOf(f, Nth(ie, k))
        /\ xc_pc = "done" =>
              /\ xc_result.ok <=> Parses(f)
              /\ xc_result.ok =>
                    /\ xc_result.val =
                           [k \in 1..Cardinality(ie) |->
                               ExpectedImage(Unwrap(f.entries[Nth(ie, k)].chunk))]
                    /\ xc_option = Some(xc_result.val)

\* two different images, the first entry's chunk lying after the second's
C7_Witness ==
    /\ xc_pc = "done"
    /\ xc_result.ok
    /\ Len(xc_result.val) = 2
    /\ xc_result.val[1] # xc_result.val[2]
    /\ gt32(xc_seeks[1], xc_seeks[2])

\* the first image entry whose chunk does not decode
FirstFailing(f) ==
    CHOOSE i \in ImageEntries(f) :
        /\ ~Decodes(f, i)
        /\ \A j \in ImageEntries(f) : j < i => Decodes(f, j)

\* C8: the decoder rejects, in this order: a width or height above 0x7fff
\* ("too large"), a width or height of 0 ("zero"), a hotspot beyond the
\* width or height ("hotspot outside"); every Image decoded has
\* 0 < width, height <= 0x7fff, xhot <= width and yhot <= height.
C8_RejectsInOrder ==
    /\ \A k \in 1..Len(imgs) :
           /\ imgs[k].width.hi = 0 /\ imgs[k].height.hi = 0
           /\ imgs[k].xhot.hi = 0 /\ imgs[k].yhot.hi = 0
           /\ 0 < imgs[k].width.lo /\ imgs[k].width.lo <= 32767
           /\ 0 < imgs[k].height.lo /\ imgs[k].height.lo <= 32767
           /\ imgs[k].xhot.lo <= imgs[k].width.lo
           /\ imgs[k].yhot.lo <= imgs[k].height.lo
    /\ (/\ xc_pc = "done"
        /\ HeaderIntact(xc_file) /\ TocIntact(xc_file)
        /\ ~Parses(xc_file)
        /\ IsSome(xc_file.entries[FirstFailing(xc_file)].chunk)) =>
           LET c == Unwrap(xc_file.entries[FirstFailing(xc_file)].chunk)
           IN (TagsRight(c) /\ Available(xc_file, FirstFailing(xc_file)) >= 36)
              => xc_result.err =
                    IF c.width > 32767 \/ c.height > 32767
                    THEN "Image too large"
                    ELSE IF c.width = 0 \/ c.height = 0
                    THEN "Image with zero width or height"
                    ELSE IF c.xhot > c.width \/ c.yhot > c.height
                    THEN "Hotspot outside image"
                    ELSE "UnexpectedEof"

\* a chunk of width 0x8000 and height 0 after a decoded image: "too large"
C8_Witness ==
    /\ xc_pc = "done"
    /\ Len(imgs) = 1
    /\ Len(xc_seeks) = 2
    /\ IsSome(xc_file.entries[2].chunk)
    /\ Unwrap(xc_file.entries[2].chunk).width = 32768
    /\ Unwrap(xc_file.entries[2].chunk).height = 0
    /\ xc_result.err = "Image too large"

\* ------------------------------------------------------------------------
\* rgba_to_argb on its own: a buffer is chosen, then the function is applied
\* to it, and again to what it returned

\* the values a byte of an arbitrary buffer takes
ByteSet == {0, 1, 255}

\* the buffers of the tests test_rgba_to_argb, test_rgba_to_argb_extra_items
\* and test_rgba_to_argb_no_items, and the first pixel of the first one
TestBuffers ==
    {<<0, 1, 2, 3, 4, 5, 6, 7>>,
     <<0, 1, 2, 3, 4, 5, 6, 7, 8>>,
     <<>>,
     <<0, 1, 2, 3>>}

Buffers == TestBuffers \cup UNION {[1..n -> ByteSet] : n \in 0..MaxLen}

RgInit ==
    /\ PtIdle
    /\ ThIdle
    /\ XcIdle
    /\ initial \in Buffers
    /\ rg_buf = initial
    /\ rg_calls = 0
    /\ rg_pc = "ready"

\* buf = rgba_to_argb(&buf)
Rotate ==
    /\ rg_pc = "ready"
    /\ rg_calls < MaxCalls
    /\ rg_buf' = rgba_to_argb(rg_buf)
    /\ rg_calls' = rg_calls + 1
    /\ UNCHANGED <<initial, rg_pc>>
    /\ UNCHANGED <<pt_vars, th_vars, xc_vars>>

SpecRgba == RgInit /\ [][Rotate]_vars

\* the number of complete 4-byte groups of a buffer
Groups(b) == Len(b) \div 4

\* C11: rgba_to_argb maps each complete 4-byte group (c0, c1, c2, c3) of its
\* input, in order, to (c3, c0, c1, c2) and drops a last group of fewer than
\* 4 bytes: the output is len - (len mod 4) bytes long, empty for the empty
\* buffer, and its bytes 4k..4k+3 are determined by the input's bytes
\* 4k..4k+3 alone.
C11_RotatesCompleteGroups ==
    rg_calls = 1 =>
        /\ Len(rg_buf) = Len(initial) - (Len(initial) % 4)
        /\ initial = <<>> => rg_buf = <<>>
        /\ \A k \in 0..(Groups(initial) - 1) :
               /\ rg_buf[4 * k + 1] = initial[4 * k + 4]
               /\ rg_buf[4 * k + 2] = initial[4 * k + 1]
               /\ rg_buf[4 * k + 3] = initial[4 * k + 2]
               /\ rg_buf[4 * k + 4] = initial[4 * k + 3]
               /\ SubSeq(rg_buf, 4 * k + 1, 4 * k + 4)
                      = rgba_to_argb(SubSeq(initial, 4 * k + 1, 4 * k + 4))

\* nine bytes: two groups rotated, the ninth byte dropped
C11_Witness ==
    /\ rg_calls = 1
    /\ initial = <<0, 1, 2, 3, 4, 5, 6, 7, 8>>
    /\ rg_buf = <<3, 0, 1, 2, 7, 4, 5, 6>>

\* C12: on a buffer whose length is a multiple of 4, four applications of
\* rgba_to_argb in a row give the buffer back, and one application takes
\* (0, 1, 2, 3) to (3, 0, 1, 2).
C12_FourRotationsAreIdentity ==
    /\ (rg_calls = 4 /\ Len(initial) % 4 = 0) => rg_buf = initial
    /\ (rg_calls = 1 /\ initial = <<0, 1, 2, 3>>) => rg_buf = <<3, 0, 1, 2>>

\* two different pixels of four different bytes each are back after the
\* fourth application
C12_Witness ==
    /\ rg_calls = 4
    /\ initial = <<0, 1, 2, 3, 4, 5, 6, 7>>
    /\ rg_buf = initial

\* ------------------------------------------------------------------------
\* The length of the pixels of an image

\* 4 * width * height as a number of 32 bits and more, in halves: the
\* product width * height split at 2^14
ExactLength(width, height) ==
    [hi |-> (width * height) \div 16384,
     lo |-> 4 * ((width * height) % 16384)]

\* the chunks the entries of a container point at
ChunksOf(f) ==
    {Unwrap(f.entries[i].chunk) :
        i \in {j \in 1..Len(f.entries) : IsSome(f.entries[j].chunk)}}

\* entry i points at a chunk whose tags and dimensions are right, the stream
\* holding its 36 bytes of fields and fewer than 4 * width * height bytes
\* after them
ShortOfPixels(f, i) ==
    /\ IsSome(f.entries[i].chunk)
    /\ LET c == Unwrap(f.entries[i].chunk)
       IN /\ TagsRight(c)
          /\ DimensionsRight(c)
          /\ Available(f, i) >= 36
          /\ (Available(f, i) - 36) \div 4 < c.width * c.height

\* C14: for validated dimensions (1 <= width, height <= 0x7fff) the u32
\* product 4 * width * height is the exact product, below 2^32; parse_img
\* reads exactly that many bytes after the fields, pixels_rgba and
\* pixels_argb of a decoded Image are both that long, and a stream holding
\* fewer bytes gives the short-read error, never a shorter buffer.
C14_PixelLengthIsExact ==
    /\ \A c \in (IF xc_pc = "idle" THEN {} ELSE ChunksOf(xc_file)) :
           DimensionsRight(c) =>
               /\ mul32(mul32(U32(4), U32(c.width)), U32(c.height))
                      = ExactLength(c.width, c.height)
               /\ ExactLength(c.width, c.height).hi < 65536
    /\ \A k \in 1..Len(imgs) :
           /\ Len(imgs[k].pixels_rgba) % 4 = 0
           /\ Len(imgs[k].pixels_rgba) \div 4
                  = imgs[k].width.lo * imgs[k].height.lo
           /\ Len(imgs[k].pixels_argb) = Len(imgs[k].pixels_rgba)
    /\ (Len(imgs) > 0 /\ Len(imgs) = Len(xc_seeks)) =>
           /\ xc_pos.hi = 0
           /\ xc_pos.lo = xc_seeks[Len(imgs)].lo + 36
                              + Len(imgs[Len(imgs)].pixels_rgba)
    /\ (/\ xc_pc = "done"
        /\ HeaderIntact(xc_file) /\ TocIntact(xc_file)
        /\ ~Parses(xc_file)
        /\ ShortOfPixels(xc_file, FirstFailing(xc_file))) =>
           /\ ~xc_result.ok
           /\ xc_result.err = "UnexpectedEof"
           /\ xc_option = None

\* a 1 x 3 image of 12 bytes decoded, then a chunk of 0x7fff x 0x7fff with 4
\* bytes of pixels: the short-read error
C14_Witness ==
    /\ xc_pc = "done"
    /\ Len(imgs) = 1
    /\ Len(imgs[1].pixels_rgba) = 12
    /\ Len(imgs[1].pixels_argb) = 12
    /\ Len(xc_seeks) = 2
    /\ IsSome(xc_file.entries[2].chunk)
    /\ Unwrap(xc_file.entries[2].chunk).width = 32767
    /\ Unwrap(xc_file.entries[2].chunk).height = 32767
    /\ xc_result.err = "UnexpectedEof"

====
